---- MODULE Spec2Model ----
(***************************************************************************)
(* Conway's game of life, optimized (src/life_optimized.cpp).              *)
(*                                                                         *)
(* The board is a flat buffer of words; a word ("group") packs             *)
(* CELLS_PER_GROUP cells as 4-bit lanes, bit 0 = most recently computed    *)
(* state, bit 1 = the state before it.  advance runs runRow for every      *)
(* interior row; runRow keeps a three-wide pipeline of column sums.        *)
(*                                                                         *)
(* Words are modelled as naturals below 2^GROUP_BIT_SIZE and every word    *)
(* operation is taken modulo 2^GROUP_BIT_SIZE.  The grid and the word are  *)
(* scaled down (R, C, CELLS_PER_GROUP); the source's literal shift 60 is   *)
(* GROUP_BIT_SIZE - 4.                                                     *)
(***************************************************************************)
EXTENDS Integers, Sequences, FiniteSets, TLC

VARIABLES board,    \* the board buffer: index -> word
          w,        \* per row: the locals of its runRow call and its position
          step,     \* number of completed advance calls (rep of main's loop)
          start,    \* history: the board when the current advance began
          init,     \* history: the alive/dead grid main initialised
          ref,      \* history: the per-cell reference simulation, generation step
          log,      \* history: per row, the fetches and writes of its runRow call
          written,  \* history: the board indices written in the current advance
          rule      \* the rule evaluator's operands and result (SpecRule)

vars == <<board, w, step, start, init, ref, log, written, rule>>

----------------------------------------------------------------------------
\* Bounds of the model (the source's sizes, scaled down).

\* rows of the grid; 1<<10 in the source
R == 3
\* columns of the grid; 1<<11 in the source
C == 4
\* lanes of a word; GROUP_BIT_SIZE/4 = 16 in the source
CELLS_PER_GROUP == 2
\* advance calls of a run: main's NUM_REPS
MaxSteps == 2

----------------------------------------------------------------------------
\* Layout constants.

GROUP_BIT_SIZE == 4 * CELLS_PER_GROUP
GROUPS_PER_ROW == (C \div CELLS_PER_GROUP) + 1
BOARD_SIZE_GROUPS == GROUPS_PER_ROW * (R + 2)

\* 2^GROUP_BIT_SIZE: the range of a word
WORD_MOD == 2 ^ GROUP_BIT_SIZE

RECURSIVE RepeatNybble(_, _)
RepeatNybble(nybble, n) ==
    IF n = 0 THEN 0 ELSE nybble + 16 * RepeatNybble(nybble, n - 1)

TOP_NYBBLET_BITTMASK == RepeatNybble(12, CELLS_PER_GROUP)
LOW_BIT_NYBBLE_BITMASK == RepeatNybble(1, CELLS_PER_GROUP)

\* columns the packed rows really hold: the real groups of a row
COLS == (GROUPS_PER_ROW - 1) * CELLS_PER_GROUP

Rows == 1..R
Indices == 0..(BOARD_SIZE_GROUPS - 1)
Cells == Rows \X (0..(COLS - 1))

----------------------------------------------------------------------------
\* Word operations (uint64_t in the source, GROUP_BIT_SIZE bits here).

RECURSIVE BitAnd(_, _)
BitAnd(x, y) ==
    IF x = 0 \/ y = 0 THEN 0
    ELSE (x % 2) * (y % 2) + 2 * BitAnd(x \div 2, y \div 2)

RECURSIVE BitOr(_, _)
BitOr(x, y) ==
    IF x = 0 THEN y
    ELSE IF y = 0 THEN x
    ELSE (IF x % 2 = 1 \/ y % 2 = 1 THEN 1 ELSE 0) + 2 * BitOr(x \div 2, y \div 2)

RECURSIVE BitXor(_, _)
BitXor(x, y) ==
    IF x = 0 THEN y
    ELSE IF y = 0 THEN x
    ELSE ((x + y) % 2) + 2 * BitXor(x \div 2, y \div 2)

Shl(x, n) == (x * (2 ^ n)) % WORD_MOD
Shr(x, n) == x \div (2 ^ n)
Add(x, y) == (x + y) % WORD_MOD
Sub(x, y) == (x - y + WORD_MOD) % WORD_MOD

\* lane i of a word (lane 0 = the low nybble = the rightmost cell of the group)
Lane(x, i) == (x \div (16 ^ i)) % 16

----------------------------------------------------------------------------
\* The kernel's helpers.

\* the board indices getColSumsForGroup reads (lines 80, 82, 83)
SelfIndex(group_index) == group_index
TopIndex(group_index) == group_index - GROUPS_PER_ROW
\* BotIndex reaching two rows down
BotIndexTwoRows(group_index) == group_index + 2 * GROUPS_PER_ROW
BotIndex(group_index) == group_index + GROUPS_PER_ROW

\* SelfVals without the mask: the history bit left in the lanes
SelfValsNoMask(b, group_index) == b[SelfIndex(group_index)]

\* line 80: the group's own current lanes
SelfVals(b, group_index) ==
    BitAnd(b[SelfIndex(group_index)], LOW_BIT_NYBBLE_BITMASK)

\* TopVals reading bit 0 of the group above (the shift forgotten)
TopValsNoShift(b, group_index) ==
    BitAnd(b[TopIndex(group_index)], LOW_BIT_NYBBLE_BITMASK)

\* line 82: the group above, its previous state (bit 1)
TopVals(b, group_index) ==
    BitAnd(Shr(b[TopIndex(group_index)], 1), LOW_BIT_NYBBLE_BITMASK)

\* BotVals reading the history bit of the row below
BotValsBitOne(b, group_index) ==
    BitAnd(Shr(b[BotIndex(group_index)], 1), LOW_BIT_NYBBLE_BITMASK)

\* line 83: the group below, its current state (bit 0)
BotVals(b, group_index) ==
    BitAnd(b[BotIndex(group_index)], LOW_BIT_NYBBLE_BITMASK)

\* line 84: colSums += topvals + botvals
ColSumOf(selfvals, topvals, botvals) == Add(selfvals, Add(topvals, botvals))

getColSumsForGroup(b, group_index) ==
    LET group_val_out == SelfVals(b, group_index)
    IN  [group_val_out |-> group_val_out,
         colSums |-> ColSumOf(group_val_out, TopVals(b, group_index),
                              BotVals(b, group_index))]

\* neighborSumToStateBit without line 90 (the self bit not folded back in)
neighborSumToStateBitNoSelf(sum_neighbors, group_value) ==
    LET s1 == Sub(sum_neighbors, group_value)
        s3 == BitXor(s1, TOP_NYBBLET_BITTMASK)
        s4 == BitAnd(s3, Shr(s3, 2))
        s5 == BitAnd(s4, Shr(s4, 1))
    IN  BitAnd(s5, LOW_BIT_NYBBLE_BITMASK)

\* neighborSumToStateBit without line 89 (the self lanes not subtracted)
neighborSumToStateBitNoSub(sum_neighbors, group_value) ==
    LET s2 == BitOr(sum_neighbors, group_value)
        s3 == BitXor(s2, TOP_NYBBLET_BITTMASK)
        s4 == BitAnd(s3, Shr(s3, 2))
        s5 == BitAnd(s4, Shr(s4, 1))
    IN  BitAnd(s5, LOW_BIT_NYBBLE_BITMASK)

neighborSumToStateBit(sum_neighbors, group_value) ==
    LET s1 == Sub(sum_neighbors, group_value)
        s2 == BitOr(s1, group_value)
        s3 == BitXor(s2, TOP_NYBBLET_BITTMASK)
        s4 == BitAnd(s3, Shr(s3, 2))
        s5 == BitAnd(s4, Shr(s4, 1))
    IN  BitAnd(s5, LOW_BIT_NYBBLE_BITMASK)

moveColSumsDownPipeline(prev_col_sum, curr_col_sums, next_col_sums) ==
    [prev_col_sum |-> curr_col_sums, curr_col_sums |-> next_col_sums]

\* updateBoardIndex with the previous state left in bit 0 (no shift)
updateBoardIndexNoShift(b, board_index, new_state_bit_values, prev_board_state) ==
    [b EXCEPT ![board_index] =
        BitOr(BitAnd(prev_board_state, LOW_BIT_NYBBLE_BITMASK),
              BitAnd(new_state_bit_values, LOW_BIT_NYBBLE_BITMASK))]

\* updateBoardIndex with the previous state shifted into bit 2
updateBoardIndexShiftTwo(b, board_index, new_state_bit_values, prev_board_state) ==
    [b EXCEPT ![board_index] =
        BitOr(Shl(BitAnd(prev_board_state, LOW_BIT_NYBBLE_BITMASK), 2),
              BitAnd(new_state_bit_values, LOW_BIT_NYBBLE_BITMASK))]

updateBoardIndex(b, board_index, new_state_bit_values, prev_board_state) ==
    LET prev_state_shifted == Shl(BitAnd(prev_board_state, LOW_BIT_NYBBLE_BITMASK), 1)
    IN  [b EXCEPT ![board_index] =
            BitOr(prev_state_shifted,
                  BitAnd(new_state_bit_values, LOW_BIT_NYBBLE_BITMASK))]

\* createLeftNeighborsFromColSums without the lane carried in from prev_col_sum
createLeftNoCarry(curr_col_sums, prev_col_sum) == Shr(curr_col_sums, 4)

createLeftNeighborsFromColSums(curr_col_sums, prev_col_sum) ==
    LET left_neighbors == Shr(curr_col_sums, 4)
        prev_carry_cell == Shl(prev_col_sum, GROUP_BIT_SIZE - 4)
    IN  BitOr(left_neighbors, prev_carry_cell)

createRightNeighborsFromColSums(curr_col_sums, next_col_sums) ==
    LET right_neighbors == Shl(curr_col_sums, 4)
        next_carry_cell == Shr(next_col_sums, GROUP_BIT_SIZE - 4)
    IN  BitOr(right_neighbors, next_carry_cell)

\* a pipeline primed with the row's last real group: a toroidal row
WrapCurrColSums(b, row_start_index) ==
    getColSumsForGroup(b, row_start_index + GROUPS_PER_ROW - 2).colSums

\* line 62: the pipeline's initial current column sums; the first
\* moveColSumsDownPipeline makes them the left neighbour of group 0
InitialCurrColSums(b, row_start_index) == 0

\* line 63: the pipeline's initial previous column sums (overwritten by the
\* first moveColSumsDownPipeline before any use)
InitialPrevColSum(b, row_start_index) == 0

\* lines 70-73: the new state of the group whose column sums are curr_col_sums
NewState(prev_col_sum, curr_col_sums, next_col_sums, curr_group_vals) ==
    LET left == createLeftNeighborsFromColSums(curr_col_sums, prev_col_sum)
        right == createRightNeighborsFromColSums(curr_col_sums, next_col_sums)
        current_neighbors == Add(Add(curr_col_sums, left), right)
    IN  neighborSumToStateBit(current_neighbors, curr_group_vals)

\* the write aimed at the group just fetched
WriteIndexAtFetch(row_start_index, group) == row_start_index + group

\* the write lagging two groups behind the fetch
WriteIndexLagTwo(row_start_index, group) == row_start_index + group - 2

\* line 75: the index runRow writes in the iteration of group
WriteIndex(row_start_index, group) == row_start_index + group - 1

----------------------------------------------------------------------------
\* runRow and advance as functions of the board (rows one after another).

RECURSIVE RunRowLoop(_, _, _, _, _, _, _)
RunRowLoop(b, row_start_index, group, prev_col_sum, curr_col_sums, next_col_sums, next_group_vals) ==
    IF group >= GROUPS_PER_ROW THEN b
    ELSE LET p == moveColSumsDownPipeline(prev_col_sum, curr_col_sums, next_col_sums)
             curr_group_vals == next_group_vals
             f == getColSumsForGroup(b, row_start_index + group)
             new_state == NewState(p.prev_col_sum, p.curr_col_sums, f.colSums,
                                   curr_group_vals)
             b2 == updateBoardIndex(b, WriteIndex(row_start_index, group),
                                    new_state, curr_group_vals)
         IN  RunRowLoop(b2, row_start_index, group + 1, p.prev_col_sum,
                        p.curr_col_sums, f.colSums, f.group_val_out)

runRow(b, row) ==
    LET row_start_index == row * GROUPS_PER_ROW
        f == getColSumsForGroup(b, row_start_index)
    IN  RunRowLoop(b, row_start_index, 1, InitialPrevColSum(b, row_start_index),
                   InitialCurrColSums(b, row_start_index), f.colSums,
                   f.group_val_out)

RECURSIVE AdvanceFrom(_, _)
AdvanceFrom(b, row) ==
    IF row >= R + 1 THEN b ELSE AdvanceFrom(runRow(b, row), row + 1)

\* advance with its rows run in ascending order, one after another
AdvanceSeq(b) == AdvanceFrom(b, 1)

----------------------------------------------------------------------------
\* The alive/dead grid and the reference simulation.

\* the group and the lane that hold column col of a row
GroupOfCol(col) == col \div CELLS_PER_GROUP
LaneOfCol(col) == CELLS_PER_GROUP - 1 - (col % CELLS_PER_GROUP)

\* bit 0 of the lane of cell <<row, col>>: what print_board shows
CellState(b, row, col) ==
    Lane(b[row * GROUPS_PER_ROW + GroupOfCol(col)], LaneOfCol(col)) % 2

\* bit 1 of the lane of cell <<row, col>>: the history bit
CellPrev(b, row, col) ==
    (Lane(b[row * GROUPS_PER_ROW + GroupOfCol(col)], LaneOfCol(col)) \div 2) % 2

Grid(b) == [c \in Cells |-> CellState(b, c[1], c[2])]

RECURSIVE PackCells(_, _, _, _)
PackCells(g, row, col, cell) ==
    IF cell = CELLS_PER_GROUP THEN 0
    ELSE g[<<row, col * CELLS_PER_GROUP + cell>>]
           * (16 ^ (CELLS_PER_GROUP - 1 - cell))
         + PackCells(g, row, col, cell + 1)

\* main, lines 154-166: calloc, then every real group of every interior row
PackBoard(g) ==
    [i \in Indices |->
        LET row == i \div GROUPS_PER_ROW
            col == i % GROUPS_PER_ROW
        IN  IF row \in Rows /\ col < GROUPS_PER_ROW - 1
            THEN PackCells(g, row, col, 0)
            ELSE 0]

AllGrids == [Cells -> {0, 1}]

\* reference: cells outside the grid are dead
RefCell(g, row, col) == IF <<row, col>> \in Cells THEN g[<<row, col>>] ELSE 0

RefNeighbours(g, row, col) ==
      RefCell(g, row - 1, col - 1) + RefCell(g, row - 1, col) + RefCell(g, row - 1, col + 1)
    + RefCell(g, row, col - 1) + RefCell(g, row, col + 1)
    + RefCell(g, row + 1, col - 1) + RefCell(g, row + 1, col) + RefCell(g, row + 1, col + 1)

RefStep(g) ==
    [c \in Cells |->
        LET n == RefNeighbours(g, c[1], c[2])
        IN  IF n = 3 \/ (g[c] = 1 /\ n = 2) THEN 1 ELSE 0]

LiveCount(g) == Cardinality({c \in Cells : g[c] = 1})

----------------------------------------------------------------------------
\* The state machine: one worker per row, one action per memory access.

\* the locals of a runRow call before its first access; reads is history:
\* the board indices the call has loaded
FreshWorker ==
    [pc |-> "self", group |-> 0,
     next_group_vals |-> 0, next_col_sums |-> 0,
     curr_col_sums |-> 0, prev_col_sum |-> 0,
     curr_group_vals |-> 0, topvals |-> 0, reads |-> {}]

NoRule == [sum_neighbors |-> 0, group_value |-> 0, out |-> 0, pc |-> "off"]

InitFrom(g) ==
    /\ board = PackBoard(g)
    /\ w = [r \in Rows |-> FreshWorker]
    /\ step = 0
    /\ start = board
    /\ init = g
    /\ ref = g
    /\ log = [r \in Rows |-> <<>>]
    /\ written = {}

Init == \E g \in AllGrids : InitFrom(g) /\ rule = NoRule

RowStart(r) == r * GROUPS_PER_ROW

\* line 80, first access of getColSumsForGroup; in the loop (group >= 1) it
\* follows lines 66 and 68 of the same iteration
LoadSelf(r) ==
    /\ step < MaxSteps
    /\ w[r].pc = "self"
    /\ LET me == w[r]
           p == moveColSumsDownPipeline(me.prev_col_sum, me.curr_col_sums,
                                        me.next_col_sums)
           moved == IF me.group = 0
                    THEN [me EXCEPT !.prev_col_sum =
                                        InitialPrevColSum(board, RowStart(r)),
                                    !.curr_col_sums =
                                        InitialCurrColSums(board, RowStart(r))]
                    ELSE [me EXCEPT !.prev_col_sum = p.prev_col_sum,
                                    !.curr_col_sums = p.curr_col_sums,
                                    !.curr_group_vals = me.next_group_vals]
       IN  w' = [w EXCEPT ![r] =
                   [moved EXCEPT !.next_group_vals =
                                     SelfVals(board, RowStart(r) + me.group),
                                 !.reads = @ \cup {SelfIndex(RowStart(r) + me.group)},
                                 !.pc = "top"]]
    /\ UNCHANGED <<board, step, start, init, ref, log, written, rule>>

\* line 82
LoadTop(r) ==
    /\ w[r].pc = "top"
    /\ w' = [w EXCEPT ![r].topvals = TopVals(board, RowStart(r) + w[r].group),
                      ![r].reads = @ \cup {TopIndex(RowStart(r) + w[r].group)},
                      ![r].pc = "bot"]
    /\ UNCHANGED <<board, step, start, init, ref, log, written, rule>>

\* lines 83-85, and the return into next_col_sums (line 61 or 69)
LoadBot(r) ==
    /\ w[r].pc = "bot"
    /\ LET me == w[r]
           colSums == ColSumOf(me.next_group_vals, me.topvals,
                               BotVals(board, RowStart(r) + me.group))
       IN  /\ w' = [w EXCEPT ![r].next_col_sums = colSums,
                             ![r].topvals = 0,
                             ![r].reads = @ \cup {BotIndex(RowStart(r) + me.group)},
                             ![r].group = IF me.group = 0 THEN 1 ELSE me.group,
                             ![r].pc = IF me.group = 0
                                       THEN (IF 1 < GROUPS_PER_ROW THEN "self" ELSE "done")
                                       ELSE "write"]
           /\ log' = [log EXCEPT ![r] =
                        Append(@, [op |-> "fetch", group |-> me.group,
                                   vals |-> me.next_group_vals])]
    /\ UNCHANGED <<board, step, start, init, ref, written, rule>>

\* lines 70-75, and the loop's increment and test (line 65)
Write(r) ==
    /\ w[r].pc = "write"
    /\ LET me == w[r]
           new_state == NewState(me.prev_col_sum, me.curr_col_sums,
                                 me.next_col_sums, me.curr_group_vals)
           index == WriteIndex(RowStart(r), me.group)
       IN  /\ board' = updateBoardIndex(board, index, new_state, me.curr_group_vals)
           /\ written' = written \cup {index}
           /\ log' = [log EXCEPT ![r] =
                        Append(@, [op |-> "write", group |-> index - RowStart(r),
                                   vals |-> me.curr_group_vals,
                                   new |-> new_state])]
           /\ w' = [w EXCEPT ![r].group = me.group + 1,
                             ![r].pc = IF me.group + 1 < GROUPS_PER_ROW
                                       THEN "self" ELSE "done"]
    /\ UNCHANGED <<step, start, init, ref, rule>>

AllDone == \A r \in Rows : w[r].pc = "done"

\* the end of advance's loop (the barrier of the parallel for), line 55, and
\* main's loop, lines 171-173
AdvanceReturn ==
    /\ AllDone
    /\ step' = step + 1
    /\ w' = [r \in Rows |-> FreshWorker]
    /\ start' = board
    /\ ref' = RefStep(ref)
    /\ log' = [r \in Rows |-> <<>>]
    /\ written' = {}
    /\ UNCHANGED <<board, init, rule>>

\* the row the loop of advance runs when its iterations are run in order
CurrentRow(r) == \A q \in Rows : q < r => w[q].pc = "done"

SeqNext ==
    \/ \E r \in Rows : CurrentRow(r) /\ LoadSelf(r)
    \/ \E r \in Rows : CurrentRow(r) /\ LoadTop(r)
    \/ \E r \in Rows : CurrentRow(r) /\ LoadBot(r)
    \/ \E r \in Rows : CurrentRow(r) /\ Write(r)
    \/ AdvanceReturn

\* single-threaded: the rows of each step in ascending order
SpecSeq == Init /\ [][SeqNext]_vars

\* at the start, or between two advance calls, or after the last
AtBoundary == \A r \in Rows : w[r] = FreshWorker

----------------------------------------------------------------------------
\* Patterns.

LiveSet(g) == {c \in Cells : g[c] = 1}

BlockAt(row, col) ==
    {<<row, col>>, <<row, col + 1>>, <<row + 1, col>>, <<row + 1, col + 1>>}

IsBlock(g) ==
    \E c \in Cells : BlockAt(c[1], c[2]) \subseteq Cells /\ LiveSet(g) = BlockAt(c[1], c[2])

\* three cells in one row / one column, centre <<row, col>>
HBlinker(row, col) == {<<row, col - 1>>, <<row, col>>, <<row, col + 1>>}
VBlinker(row, col) == {<<row - 1, col>>, <<row, col>>, <<row + 1, col>>}

----------------------------------------------------------------------------
\* Row workers with no order between the rows (#pragma omp parallel for): any
\* worker may make its next access.  Each access is one word load or store.

\* initial boards of the concurrent specification: the live cells lie within
\* one 2x2 square of the grid (the empty board, ..., every 2x2 block)
ParGrids ==
    {g \in AllGrids :
        \E c \in Cells : BlockAt(c[1], c[2]) \subseteq Cells
                         /\ LiveSet(g) \subseteq BlockAt(c[1], c[2])}

InitPar == \E g \in ParGrids : InitFrom(g) /\ rule = NoRule

ParNext ==
    \/ \E r \in Rows : LoadSelf(r)
    \/ \E r \in Rows : LoadTop(r)
    \/ \E r \in Rows : LoadBot(r)
    \/ \E r \in Rows : Write(r)
    \/ AdvanceReturn

SpecPar == InitPar /\ [][ParNext]_vars

----------------------------------------------------------------------------
\* C1: with the rows of each step run in ascending order, after any number of
\* advance calls bit 0 of every interior lane equals the per-cell reference
\* simulation (two buffers, dead outside the grid, textbook rule) of the same
\* number of generations.
C1_MatchesReference == AtBoundary => Grid(board) = ref

C1_Witness ==
    /\ AtBoundary
    /\ step >= 2
    /\ Grid(board) = ref
    /\ ref # init
    /\ ref # RefStep(init)
    /\ LiveCount(ref) >= 3

----------------------------------------------------------------------------
\* The rule evaluator on its own: every word whose lanes hold
\* neighbor_count + self, neighbor_count in 0..8, with the self lanes.

Lanes == 0..(CELLS_PER_GROUP - 1)

RECURSIVE PackLanes(_, _)
PackLanes(f, i) ==
    IF i = CELLS_PER_GROUP THEN 0 ELSE f[i] * (16 ^ i) + PackLanes(f, i + 1)

InitRule ==
    /\ InitFrom([c \in Cells |-> 0])
    /\ \E nc \in [Lanes -> 0..8], self \in [Lanes -> {0, 1}] :
          rule = [sum_neighbors |-> PackLanes([i \in Lanes |-> nc[i] + self[i]], 0),
                  group_value |-> PackLanes(self, 0),
                  out |-> 0, pc |-> "call"]

\* line 73: the call of neighborSumToStateBit
Evaluate ==
    /\ rule.pc = "call"
    /\ rule' = [rule EXCEPT !.out = neighborSumToStateBit(rule.sum_neighbors,
                                                          rule.group_value),
                            !.pc = "ret"]
    /\ UNCHANGED <<board, w, step, start, init, ref, log, written>>

SpecRule == InitRule /\ [][Evaluate]_vars

----------------------------------------------------------------------------
\* C2: one advance whose rows are run by concurrent workers, in any
\* interleaving of their loads and stores, gives every interior cell the bit 0
\* that the same advance gives with the rows run one after another in
\* ascending order from the same board.
C2_ParallelMatchesSequential == AllDone => Grid(board) = Grid(AdvanceSeq(start))

IsBorderIndex(i) ==
    \/ i \div GROUPS_PER_ROW = 0
    \/ i \div GROUPS_PER_ROW = R + 1
    \/ i % GROUPS_PER_ROW = GROUPS_PER_ROW - 1

\* C3: under any row schedule and after any number of advance calls, every
\* word of border row 0, of border row R+1 and of the trailing padding group
\* of every row is 0.
C3_BorderZero == \A i \in Indices : IsBorderIndex(i) => board[i] = 0

C3_Witness ==
    /\ step >= 1
    /\ \E i \in written : board[i] # 0 /\ i % GROUPS_PER_ROW = GROUPS_PER_ROW - 2
    /\ \E r \in Rows : w[r].pc = "done"
    /\ \A i \in Indices : IsBorderIndex(i) => board[i] = 0

\* the board b with the lanes of column col emptied in every row
ClearColumn(b, col) ==
    [i \in Indices |->
        IF i \div GROUPS_PER_ROW \in Rows /\ i % GROUPS_PER_ROW = GroupOfCol(col)
        THEN b[i] - Lane(b[i], LaneOfCol(col)) * (16 ^ LaneOfCol(col))
        ELSE b[i]]

\* C4: no wraparound.  After one advance (rows in ascending order) every cell
\* of column 0 has the state it gets from the same input with the last column
\* emptied, and every cell of the last column the state it gets with column 0
\* emptied: boards that differ only in the last column agree on column 0
\* after the step, and boards that differ only in column 0 agree on the last
\* column.
C4_NoWraparound ==
    AllDone =>
        \A r \in Rows :
            /\ CellState(AdvanceSeq(ClearColumn(start, COLS - 1)), r, 0)
                 = CellState(board, r, 0)
            /\ CellState(AdvanceSeq(ClearColumn(start, 0)), r, COLS - 1)
                 = CellState(board, r, COLS - 1)

\* a step done on a board whose first and last columns both hold live cells in
\* the same row, with dead cells of column 0 that a wrapped neighbourhood
\* would count three live neighbours for
C4_Witness ==
    /\ AllDone
    /\ \E r \in Rows :
          /\ r - 1 \in Rows /\ r + 1 \in Rows
          /\ CellState(start, r, 0) = 0
          /\ CellState(start, r - 1, COLS - 1) = 1
          /\ CellState(start, r, COLS - 1) = 1
          /\ CellState(start, r + 1, COLS - 1) = 1
          /\ \A q \in {r - 1, r, r + 1} :
                CellState(start, q, 1) = 0 /\ CellState(start, q, 0) = 0
          /\ CellState(board, r, 0) = 0

\* C5: on a board whose only live cells form a 2x2 block, after any number of
\* advance calls under every row schedule, bit 0 of every cell equals its
\* initial state.
C5_BlockStill == (IsBlock(init) /\ AtBoundary) => Grid(board) = init

\* C6 as claimed: a blinker anywhere in the grid, rows in ascending order, is
\* the blinker rotated about its centre after 1 step and itself after 2.
C6_BlinkerAnywhere ==
    \A c \in Cells :
        /\ (HBlinker(c[1], c[2]) \subseteq Cells /\ LiveSet(init) = HBlinker(c[1], c[2])
              /\ AtBoundary)
           => /\ step = 1 => LiveSet(Grid(board)) = VBlinker(c[1], c[2])
              /\ step = 2 => LiveSet(Grid(board)) = HBlinker(c[1], c[2])
        /\ (VBlinker(c[1], c[2]) \subseteq Cells /\ LiveSet(init) = VBlinker(c[1], c[2])
              /\ AtBoundary)
           => /\ step = 1 => LiveSet(Grid(board)) = HBlinker(c[1], c[2])
              /\ step = 2 => LiveSet(Grid(board)) = VBlinker(c[1], c[2])

\* the blinker of centre c and its rotation both lie inside the grid
BlinkerFits(c) ==
    HBlinker(c[1], c[2]) \subseteq Cells /\ VBlinker(c[1], c[2]) \subseteq Cells

\* C6 amended: a blinker whose rotation about its centre also lies inside the
\* grid (its centre is on no edge row or column), rows in ascending order, is
\* the rotated blinker after 1 step and itself after 2.
C6_BlinkerInside ==
    \A c \in Cells :
        (BlinkerFits(c) /\ AtBoundary) =>
            /\ LiveSet(init) = HBlinker(c[1], c[2])
               => /\ step = 1 => LiveSet(Grid(board)) = VBlinker(c[1], c[2])
                  /\ step = 2 => LiveSet(Grid(board)) = HBlinker(c[1], c[2])
            /\ LiveSet(init) = VBlinker(c[1], c[2])
               => /\ step = 1 => LiveSet(Grid(board)) = HBlinker(c[1], c[2])
                  /\ step = 2 => LiveSet(Grid(board)) = VBlinker(c[1], c[2])

\* a horizontal blinker across a group boundary, back after two steps
C6_Witness ==
    /\ AtBoundary
    /\ step = 2
    /\ \E c \in Cells :
          /\ BlinkerFits(c)
          /\ GroupOfCol(c[2] - 1) # GroupOfCol(c[2] + 1)
          /\ LiveSet(init) = HBlinker(c[1], c[2])
          /\ LiveSet(Grid(board)) = HBlinker(c[1], c[2])

\* C7: advance is a function of the input board alone: whatever the schedule
\* of the row workers, it ends with the one buffer that the board it started
\* from determines (the buffer the rows run in order leave).
C7_Deterministic == AllDone => board = AdvanceSeq(start)

\* the textbook rule
RuleTable(neighbor_count, self) ==
    IF neighbor_count = 3 \/ (self = 1 /\ neighbor_count = 2) THEN 1 ELSE 0

\* C8: for every word whose lanes hold neighbor_count + self (0..8, {0,1}),
\* each lane of neighborSumToStateBit's result is exactly the rule's bit for
\* that lane's own neighbor_count and self, whatever the other lanes hold.
C8_TruthTable ==
    rule.pc = "ret" =>
        \A i \in Lanes :
            Lane(rule.out, i) =
                RuleTable(Lane(rule.sum_neighbors, i) - Lane(rule.group_value, i),
                          Lane(rule.group_value, i))

\* a survival (2 neighbours, alive) in one lane beside a full lane (8
\* neighbours, alive: the sum 9)
C8_Witness ==
    /\ rule.pc = "ret"
    /\ \E i, j \in Lanes :
          /\ i # j
          /\ Lane(rule.sum_neighbors, i) = 3 /\ Lane(rule.group_value, i) = 1
          /\ Lane(rule.out, i) = 1
          /\ Lane(rule.sum_neighbors, j) = 9 /\ Lane(rule.group_value, j) = 1
          /\ Lane(rule.out, j) = 0

\* the group whose column sums next_col_sums of row r holds
LastFetched(r) == IF w[r].pc = "write" THEN w[r].group ELSE w[r].group - 1

\* the column sums of a group taken from bit 0 of the board b
StartColSums(b, group_index) ==
    Add(BitAnd(b[group_index], LOW_BIT_NYBBLE_BITMASK),
        Add(BitAnd(b[group_index - GROUPS_PER_ROW], LOW_BIT_NYBBLE_BITMASK),
            BitAnd(b[group_index + GROUPS_PER_ROW], LOW_BIT_NYBBLE_BITMASK)))

\* C9: whenever getColSumsForGroup runs for a group of row r during an
\* advance, the group above has already been written in this advance, so its
\* bit 1 is its start-of-step state, and the group below has not, so its bit 0
\* is its start-of-step state: each lane of the column sums it returns is the
\* sum of the start-of-step states of the cell above, the cell and the cell
\* below.
C9_FetchSeesStartOfStep ==
    \A r \in Rows :
        (log[r] # <<>> /\ w[r].pc \in {"self", "write", "done"})
        => w[r].next_col_sums = StartColSums(start, RowStart(r) + LastFetched(r))

\* the fetches and writes of one runRow call, in order
RECURSIVE ExpectedOps(_)
ExpectedOps(group) ==
    IF group >= GROUPS_PER_ROW THEN <<>>
    ELSE <<<<"fetch", group>>, <<"write", group - 1>>>> \o ExpectedOps(group + 1)

RunRowOps == <<<<"fetch", 0>>>> \o ExpectedOps(1)

OpsOf(l) == [k \in 1..Len(l) |-> <<l[k].op, l[k].group>>]

\* C10: in one runRow call the groups 0..GROUPS_PER_ROW-1 are fetched once
\* each in ascending order, the real groups written once each in ascending
\* order, the write of group g right after the fetch of group g+1 and with
\* the self lanes the fetch of g captured; the padding group is fetched and
\* never written; the call ends when every real group has been written.
C10_PipelineOrder ==
    \A r \in Rows :
        /\ Len(log[r]) <= Len(RunRowOps)
        /\ OpsOf(log[r]) = SubSeq(RunRowOps, 1, Len(log[r]))
        /\ w[r].pc = "done" <=> Len(log[r]) = Len(RunRowOps)
        /\ \A k \in 1..Len(log[r]) :
              log[r][k].op = "write" =>
                  \E j \in 1..(k - 1) :
                      /\ log[r][j].op = "fetch"
                      /\ log[r][j].group = log[r][k].group
                      /\ log[r][j].vals = log[r][k].vals

\* a finished runRow call on a row with live cells in both real groups
C10_Witness ==
    \E r \in Rows :
        /\ w[r].pc = "done"
        /\ Len(log[r]) = 2 * GROUPS_PER_ROW - 1
        /\ \E k \in 1..Len(log[r]) : log[r][k].op = "write" /\ log[r][k].vals # 0
        /\ log[r][Len(log[r])].op = "write"
        /\ log[r][Len(log[r])].group = GROUPS_PER_ROW - 2

----------------------------------------------------------------------------
\* the words of board row r (0..R+1), and the real groups of interior row r
RowIndices(r) == {i \in Indices : i \div GROUPS_PER_ROW = r}
RealGroupsOf(r) == {RowStart(r) + g : g \in 0..(GROUPS_PER_ROW - 2)}

\* a step of the runRow call of row r
CallSteps(r) == w[r].pc # "done" /\ w'[r] # w[r] /\ w'[r] # FreshWorker

\* C11: the runRow call of interior row r reads only words of rows r-1, r and
\* r+1, and every step of the call leaves unchanged every word that is not a
\* real group of row r (the other rows, and the padding group of row r).
C11_RunRowFrame ==
    /\ [](\A r \in Rows :
            w[r].reads \subseteq
                (RowIndices(r - 1) \cup RowIndices(r) \cup RowIndices(r + 1)))
    /\ [][\A i \in Indices :
            board'[i] # board[i]
            => \E r \in Rows : CallSteps(r) /\ i \in RealGroupsOf(r)]_vars

\* the call of row 2 done, having read words of rows 1, 2 and 3 and changed
\* a word of its own row, with live cells left in row 1 and row 3
C11_Witness ==
    /\ 2 \in Rows /\ 3 \in Rows
    /\ w[2].pc = "done" /\ w[3].pc = "self" /\ w[3].group = 0
    /\ w[2].reads = RowIndices(1) \cup RowIndices(2) \cup RowIndices(3)
    /\ \E i \in RealGroupsOf(2) : board[i] # start[i]
    /\ \E i \in RealGroupsOf(1) : board[i] # 0
    /\ \E i \in RealGroupsOf(3) : board[i] # 0 /\ board[i] = start[i]

\* the new state the call of row r evaluated for the word at index i
EvaluatedFor(r, i) ==
    {log[r][k].new : k \in {j \in 1..Len(log[r]) :
                              log[r][j].op = "write"
                              /\ RowStart(r) + log[r][j].group = i}}

\* C12: after one complete advance, under any row schedule, bit 1 of every
\* lane of every real group of every interior row is the bit 0 that lane had
\* when the advance began, and bit 0 is the state newly evaluated for it.
C12_HistoryKept ==
    AllDone =>
        \A r \in Rows : \A i \in RealGroupsOf(r) :
            /\ BitAnd(Shr(board[i], 1), LOW_BIT_NYBBLE_BITMASK)
                 = BitAnd(start[i], LOW_BIT_NYBBLE_BITMASK)
            /\ EvaluatedFor(r, i) = {BitAnd(board[i], LOW_BIT_NYBBLE_BITMASK)}

\* a second advance done, with a cell that survived it (bit 1 and bit 0 set)
\* and a cell whose history bit it set, the cell having been born in the first
C12_Witness ==
    /\ AllDone
    /\ step >= 1
    /\ \E c \in Cells : CellPrev(board, c[1], c[2]) = 1 /\ CellState(board, c[1], c[2]) = 1
    /\ \E c \in Cells : /\ CellPrev(start, c[1], c[2]) = 0
                         /\ CellState(start, c[1], c[2]) = 1
                         /\ CellPrev(board, c[1], c[2]) = 1

\* C13: in every state reachable from an initialised board, every 4-bit lane
\* of every board word is in 0..3: bits 2 and 3 are zero, only bit 0 (current)
\* and bit 1 (previous) are ever set.
C13_LanesTwoBits ==
    \A i \in Indices :
        /\ board[i] \in 0..(WORD_MOD - 1)
        /\ \A l \in Lanes : Lane(board[i], l) \in 0..3

\* after an advance, during the next: lanes holding 3, 2 and 1
C13_Witness ==
    /\ step >= 1
    /\ written # {}
    /\ \E i \in written : \E l \in Lanes : Lane(board[i], l) = 3
    /\ \E i \in written : \E l \in Lanes : Lane(board[i], l) = 2
    /\ \E i \in Indices : \E l \in Lanes : Lane(board[i], l) = 1

\* the operands of line 72 in the iteration the call of row r is in
LeftOf(r) == createLeftNeighborsFromColSums(w[r].curr_col_sums, w[r].prev_col_sum)
RightOf(r) == createRightNeighborsFromColSums(w[r].curr_col_sums, w[r].next_col_sums)
NeighborsOf(r) == Add(Add(w[r].curr_col_sums, LeftOf(r)), RightOf(r))

\* C14: each lane of the column sums getColSumsForGroup returns is at most 3
\* and each lane of curr_col_sums + left + right is at most 9, so the word
\* additions of lines 84 and 72 and the subtraction of line 89 act lane by
\* lane: no carry and no borrow crosses a lane boundary.
C14_NoCarry ==
    \A r \in Rows : \A l \in Lanes :
        /\ w[r].pc = "bot" =>
              LET bot == BotVals(board, RowStart(r) + w[r].group)
                  lanesum == Lane(w[r].next_group_vals, l) + Lane(w[r].topvals, l)
                               + Lane(bot, l)
              IN  /\ lanesum <= 3
                  /\ Lane(ColSumOf(w[r].next_group_vals, w[r].topvals, bot), l) = lanesum
        /\ Lane(w[r].next_col_sums, l) <= 3
        /\ w[r].pc = "write" =>
              LET lanesum == Lane(w[r].curr_col_sums, l) + Lane(LeftOf(r), l)
                               + Lane(RightOf(r), l)
              IN  /\ lanesum <= 9
                  /\ Lane(NeighborsOf(r), l) = lanesum
                  /\ Lane(w[r].curr_group_vals, l) <= lanesum
                  /\ Lane(Sub(NeighborsOf(r), w[r].curr_group_vals), l)
                       = lanesum - Lane(w[r].curr_group_vals, l)

\* a write about to be made with a lane whose neighbourhood sum is 9, beside
\* a lane whose sum is smaller, the column sums of the lane being 3
C14_Witness ==
    \E r \in Rows :
        /\ w[r].pc = "write"
        /\ \E l \in Lanes : Lane(NeighborsOf(r), l) = 9 /\ Lane(w[r].curr_col_sums, l) = 3
        /\ \E l \in Lanes : Lane(NeighborsOf(r), l) \in 1..8

\* the column sum of the cell at (row, col) on the board the step started
\* from: the current bits of rows row-1, row, row+1 in that column, and 0
\* for a column left of the board
ColSumAt(row, col) ==
    IF col < 0 THEN 0
    ELSE LET at(rr) == Lane(start[rr * GROUPS_PER_ROW + GroupOfCol(col)], LaneOfCol(col)) % 2
         IN  at(row - 1) + at(row) + at(row + 1)

\* the column lane l of the group the call of row r is finalising stands for
ColOfLane(r, l) == (w[r].group - 1) * CELLS_PER_GROUP + (CELLS_PER_GROUP - 1 - l)

\* C15: in every lane of the group being finalised the left contribution is
\* the column sum of the cell one column to the left (across the group
\* boundary for the leftmost lane, 0 for the leftmost lane of group 0) and
\* the right contribution is the column sum of the cell one column to the
\* right (across the group boundary for the rightmost lane); nothing else
\* reaches either word.
C15_LeftRightColumns ==
    \A r \in Rows :
        w[r].pc = "write" =>
            /\ LeftOf(r) \in 0..(WORD_MOD - 1)
            /\ RightOf(r) \in 0..(WORD_MOD - 1)
            /\ \A l \in Lanes :
                  /\ Lane(LeftOf(r), l) = ColSumAt(r, ColOfLane(r, l) - 1)
                  /\ Lane(RightOf(r), l) = ColSumAt(r, ColOfLane(r, l) + 1)

\* the second group of a row about to be written, its leftmost lane taking
\* a column sum of 3 from the group before it, which in turn took a
\* nonzero sum from this group's leftmost column as its right contribution
C15_Witness ==
    \E r \in Rows :
        /\ w[r].pc = "write"
        /\ w[r].group - 1 >= 1
        /\ Lane(w[r].prev_col_sum, 0) = 3
        /\ Lane(LeftOf(r), CELLS_PER_GROUP - 1) = 3
        /\ Lane(w[r].curr_col_sums, CELLS_PER_GROUP - 1) \in 1..2
        /\ Lane(RightOf(r), CELLS_PER_GROUP - 1) # Lane(LeftOf(r), CELLS_PER_GROUP - 1)
        /\ \E k \in 1..Len(log[r]) : log[r][k].op = "write" /\ log[r][k].group = 0

\* the word at column offset g of row rr, when there is such a word
InRowAt(i, rr, g) == i \in Indices /\ i \div GROUPS_PER_ROW = rr /\ i % GROUPS_PER_ROW = g

\* C16: every board index a call reads or writes lies in
\* 0..BOARD_SIZE_GROUPS-1; the three indices getColSumsForGroup uses for the
\* group a call is fetching are the words at that group's column offset in
\* rows r-1, r and r+1, and the index written is a real group of row r.
C16_IndicesInBounds ==
    /\ written \subseteq Indices
    /\ \A r \in Rows :
          /\ w[r].reads \subseteq Indices
          /\ w[r].pc \in {"self", "top", "bot"} =>
                LET group_index == RowStart(r) + w[r].group
                IN  /\ InRowAt(TopIndex(group_index), r - 1, w[r].group)
                    /\ InRowAt(SelfIndex(group_index), r, w[r].group)
                    /\ InRowAt(BotIndex(group_index), r + 1, w[r].group)
          /\ w[r].pc = "write" =>
                LET index == WriteIndex(RowStart(r), w[r].group)
                IN  InRowAt(index, r, w[r].group - 1) /\ index \in RealGroupsOf(r)

\* the last row has finished: the first and the last word of the board have
\* both been read, and the first and last real group have been written
C16_Witness ==
    /\ w[R].pc = "done"
    /\ 0 \in w[1].reads
    /\ BOARD_SIZE_GROUPS - 1 \in w[R].reads
    /\ RowStart(1) \in written
    /\ RowStart(R) + GROUPS_PER_ROW - 2 \in written

\* advance called on a board that already carries history bits: the current
\* bits from ParGrids, the history bits of the interior lanes from HistGrids,
\* the borders zero
HistGrids == ParGrids \cup {[c \in Cells |-> 1]}

InitHist ==
    \E g \in ParGrids, h \in HistGrids :
        /\ board = PackBoard([c \in Cells |-> g[c] + 2 * h[c]])
        /\ w = [r \in Rows |-> FreshWorker]
        /\ step = 0
        /\ start = board
        /\ init = g
        /\ ref = g
        /\ log = [r \in Rows |-> <<>>]
        /\ written = {}
        /\ rule = NoRule

SpecHist == InitHist /\ [][SeqNext]_vars

\* a board with the history bit of every lane cleared
ClearHistory(b) == [i \in Indices |-> BitAnd(b[i], LOW_BIT_NYBBLE_BITMASK)]

\* C17: with the rows run in ascending order the current bits after one
\* advance depend only on the current bits of the input: the board reached
\* from an input with any history bits in its interior lanes has, in every
\* lane, the current bit that advance gives on the same input with all
\* history bits cleared, so two inputs that agree on bit 0 and have zero
\* borders agree on bit 0 after the step.
C17_HistoryIgnored ==
    AllDone =>
        LET plain == AdvanceSeq(ClearHistory(start))
        IN  \A i \in Indices :
                BitAnd(board[i], LOW_BIT_NYBBLE_BITMASK)
                  = BitAnd(plain[i], LOW_BIT_NYBBLE_BITMASK)

\* the first advance done on an input whose history bits are not its current
\* bits: a cell is born whose lower neighbour was dead with its history bit
\* set, and somewhere a live cell had its history bit clear
C17_Witness ==
    /\ AllDone
    /\ step = 0
    /\ \E c \in Cells :
          /\ <<c[1] + 1, c[2]>> \in Cells
          /\ CellState(start, c[1], c[2]) = 0
          /\ CellState(board, c[1], c[2]) = 1
          /\ CellState(start, c[1] + 1, c[2]) = 0
          /\ CellPrev(start, c[1] + 1, c[2]) = 1
    /\ \E c \in Cells : CellState(start, c[1], c[2]) = 1 /\ CellPrev(start, c[1], c[2]) = 0

====
